---- MODULE Spec2Model ----
(***************************************************************************)
(* AttachmentCryptoV2 (ts/AttachmentCrypto.ts): the streaming attachment   *)
(* encryptor, decryptor and re-encryptor.                                  *)
(*                                                                         *)
(* Two specifications share the definitions below.                         *)
(*   Spec      one call of an entry point as a process: the async function *)
(*             frames, the two pipelines, the bridge (PassThrough), the    *)
(*             file, its handles and the error log.  Stream contents are   *)
(*             counted in chunks and the frame's integrity is an input.    *)
(*   SpecData  the byte level: frames are byte sequences, built and taken  *)
(*             apart by the pipeline stages.                               *)
(***************************************************************************)
EXTENDS Integers, Sequences, FiniteSets, TLC

VARIABLES
  op,        \* the entry point being called
  args,      \* its arguments and the environment it runs in
  pc,        \* position of the entry point's own async function
  file,      \* does the output path exist on disk
  out,       \* what the call's final sink received: [chunks, ended]
  writeFd,   \* the FileHandle from open(absoluteTargetPath, 'w')
  readFd,    \* the FileHandle from open(ciphertextPath, 'r')
  wstream,   \* the WriteStream from createWriteStream(absoluteTargetPath)
  dec,       \* decryptAttachmentV2ToSink: [st, left, err]
  enc,       \* encryptAttachmentV2: [st, left, err]
  bridge,    \* the PassThrough between the two: [buf, ended, err, by]
  log,       \* sites that wrote an error-level log entry
  unlinked,  \* outcome of safeUnlinkSync, "no" before it is called
  caught,    \* the error in flight in the entry point's own try block
  outcome,   \* what the caller sees: [st, err]
  data       \* byte-level state (SpecData)

callVars == <<op, args, pc, file, out, writeFd, readFd, wstream, dec, enc,
              bridge, log, unlinked, caught, outcome>>
vars == <<op, args, pc, file, out, writeFd, readFd, wstream, dec, enc,
          bridge, log, unlinked, caught, outcome, data>>

----------------------------------------------------------------------------
(* Lengths *)

KEY_LENGTH == 32
MAC_LENGTH == 32
IV_LENGTH == 16
DIGEST_LENGTH == MAC_LENGTH
ATTACHMENT_MAC_LENGTH == MAC_LENGTH
KEY_SET_LENGTH == KEY_LENGTH + MAC_LENGTH
AES_CBC_BLOCK_SIZE == 16

(* Bounds *)

\* chunks the source of a pipeline delivers before it ends
NumChunks == 2
\* chunks the bridge buffers before the decrypt pipeline has to wait
BridgeCap == 1

----------------------------------------------------------------------------
(* Keys *)

\* Buffer.from(keysBase64, 'base64') and toBase64: the encoded form is a
\* string, not the bytes; decoding gives the bytes back.
toBase64(bytes) == [base64 |-> bytes]
fromBase64(str) == str.base64

splitKeys_NoLengthCheck(keys) ==
  LET half == IF Len(keys) < KEY_LENGTH THEN Len(keys) ELSE KEY_LENGTH
  IN [ok |-> TRUE,
      aesKey |-> SubSeq(keys, 1, half),
      macKey |-> SubSeq(keys, half + 1, Len(keys))]

\* strictAssert(keys.byteLength === KEY_SET_LENGTH), then the two halves
splitKeys(keys) ==
  IF Len(keys) = KEY_SET_LENGTH
  THEN [ok |-> TRUE,
        aesKey |-> SubSeq(keys, 1, KEY_LENGTH),
        macKey |-> SubSeq(keys, KEY_LENGTH + 1, KEY_SET_LENGTH)]
  ELSE [ok |-> FALSE, aesKey |-> <<>>, macKey |-> <<>>]

KeysA == [i \in 1..KEY_SET_LENGTH |-> (7 * i) % 256]
KeysB == [i \in 1..KEY_SET_LENGTH |-> (11 * i + 3) % 256]
ShortKeys == [i \in 1..(KEY_SET_LENGTH - 1) |-> (7 * i) % 256]
LongKeys == [i \in 1..(KEY_SET_LENGTH + 1) |-> (7 * i) % 256]

constantTimeEqual(a, b) == a = b

----------------------------------------------------------------------------
(* The checks the functions make themselves *)

encryptValidate_NoEnvironmentCheck(keys, ivReason, digestToMatchLen, skipPadding, env) ==
  IF ~splitKeys(keys).ok THEN "KeyLengthError"
  ELSE IF ivReason = "reencrypting-for-backup" /\ digestToMatchLen # DIGEST_LENGTH
       THEN "DigestToMatchLengthError"
  ELSE "ok"

\* encryptAttachmentV2 up to its pipeline: splitKeys, the dangerousIv
\* cases, dangerousTestOnlySkipPadding.  "ok" or the error thrown.
encryptValidate(keys, ivReason, digestToMatchLen, skipPadding, env) ==
  IF ~splitKeys(keys).ok THEN "KeyLengthError"
  ELSE IF ivReason = "test" /\ env # "test" THEN "TestOnlyIvError"
  ELSE IF ivReason = "reencrypting-for-backup" /\ digestToMatchLen # DIGEST_LENGTH
       THEN "DigestToMatchLengthError"
  ELSE IF skipPadding /\ env # "test" THEN "TestOnlySkipPaddingError"
  ELSE "ok"

finalizer_DigestFirst(ourMac, theirMac, type, ourDigest, theirDigest, outerEncryption, ourOuterMac, theirOuterMac) ==
  IF type = "standard" /\ ~constantTimeEqual(ourDigest, theirDigest) THEN "Bad digest"
  ELSE IF ~constantTimeEqual(ourMac, theirMac) THEN "Bad MAC"
  ELSE IF ~outerEncryption THEN "ok"
  ELSE IF ~constantTimeEqual(ourOuterMac, theirOuterMac) THEN "Bad outer encryption MAC"
  ELSE "ok"

finalizer_NoMacCheck(ourMac, theirMac, type, ourDigest, theirDigest, outerEncryption, ourOuterMac, theirOuterMac) ==
  IF type = "standard" /\ ~constantTimeEqual(ourDigest, theirDigest) THEN "Bad digest"
  ELSE IF ~outerEncryption THEN "ok"
  ELSE IF ~constantTimeEqual(ourOuterMac, theirOuterMac) THEN "Bad outer encryption MAC"
  ELSE "ok"

\* The callback given to finalStream: "ok" or the error thrown.
finalizer(ourMac, theirMac, type, ourDigest, theirDigest, outerEncryption, ourOuterMac, theirOuterMac) ==
  IF ~constantTimeEqual(ourMac, theirMac) THEN "Bad MAC"
  ELSE IF type = "standard" /\ ~constantTimeEqual(ourDigest, theirDigest) THEN "Bad digest"
  ELSE IF ~outerEncryption THEN "ok"
  ELSE IF ~constantTimeEqual(ourOuterMac, theirOuterMac) THEN "Bad outer encryption MAC"
  ELSE "ok"

\* The catch of decryptAttachmentV2ToSink: AbortError is rethrown unlogged.
decCatchLog(err) ==
  IF err = "AbortError" THEN {} ELSE {"decryptAttachmentV2ToSink"}

safeUnlinkSync_Rethrow(exists, fault) ==
  IF ~exists THEN [file |-> FALSE, result |-> "ENOENT", err |-> "ENOENT", log |-> {"safeUnlinkSync"}]
  ELSE IF fault THEN [file |-> TRUE, result |-> "EPERM", err |-> "EPERM", log |-> {"safeUnlinkSync"}]
  ELSE [file |-> FALSE, result |-> "ok", err |-> "", log |-> {}]

\* unlinkSync(filePath), ENOENT swallowed, any other failure logged and
\* thrown.  fault: unlinkSync fails although the file is there.
safeUnlinkSync(exists, fault) ==
  IF ~exists THEN [file |-> FALSE, result |-> "ENOENT", err |-> "", log |-> {}]
  ELSE IF fault THEN [file |-> TRUE, result |-> "EPERM", err |-> "EPERM", log |-> {"safeUnlinkSync"}]
  ELSE [file |-> FALSE, result |-> "ok", err |-> "", log |-> {}]

----------------------------------------------------------------------------
(* Bytes: the primitives of node:crypto, as stand-ins that keep what the   *)
(* pipelines rely on.  A digest depends on every byte and on its position; *)
(* an HMAC on the key as well; the cipher is a keyed block chain with      *)
(* PKCS#7 padding that the decipher checks and removes.                    *)

\* the plaintext bytes and lengths tried
MaxPlainLen == 2
\* logPadSize rounds up to a multiple of this
PadBucket == 3

Zeros(n) == [i \in 1..n |-> 0]

\* the sum of i * (s[i] + 1) for i in lo..hi
RECURSIVE WSum(_, _, _)
WSum(s, lo, hi) ==
  IF lo > hi THEN 0
  ELSE IF lo = hi THEN lo * (s[lo] + 1)
  ELSE LET mid == (lo + hi) \div 2
       IN WSum(s, lo, mid) + WSum(s, mid + 1, hi)

Digest32(n) ==
  [j \in 1..DIGEST_LENGTH |->
     CASE j = 1 -> n % 256
       [] j = 2 -> (n \div 256) % 256
       [] j = 3 -> (n \div 65536) % 256
       [] j = 4 -> (n \div 16777216) % 256
       [] OTHER -> (n + j) % 256]

\* createHash(HashType.size256).update(bytes).digest()
sha256(bytes) == Digest32(WSum(bytes, 1, Len(bytes)))

\* createHmac(HashType.size256, macKey).update(bytes).digest()
hmacSha256(macKey, bytes) ==
  Digest32(7 * WSum(macKey, 1, Len(macKey)) + WSum(bytes, 1, Len(bytes)) + 1)

\* hash.digest('hex'): a string of two characters a byte
toHex(bytes) == [hex |-> bytes]
HexLength(str) == 2 * Len(str.hex)

BlockKey(aesKey, j) == aesKey[j] + aesKey[j + AES_CBC_BLOCK_SIZE]

pkcs7(bytes) ==
  LET n == AES_CBC_BLOCK_SIZE - (Len(bytes) % AES_CBC_BLOCK_SIZE)
  IN bytes \o [i \in 1..n |-> n]

RECURSIVE cbcBlocks(_, _, _)
cbcBlocks(aesKey, prev, bytes) ==
  IF bytes = <<>> THEN <<>>
  ELSE LET blk == [j \in 1..AES_CBC_BLOCK_SIZE |->
                     (bytes[j] + prev[j] + BlockKey(aesKey, j)) % 256]
       IN blk \o cbcBlocks(aesKey, blk,
                           SubSeq(bytes, AES_CBC_BLOCK_SIZE + 1, Len(bytes)))

\* createCipheriv(CipherType.AES256CBC, aesKey, iv): update, then final
createCipheriv(aesKey, iv, bytes) == cbcBlocks(aesKey, iv, pkcs7(bytes))

\* createDecipheriv(CipherType.AES256CBC, aesKey, iv): update, then final,
\* which throws on a partial block or on padding that is not PKCS#7
createDecipheriv(aesKey, iv, bytes) ==
  IF Len(bytes) = 0 \/ Len(bytes) % AES_CBC_BLOCK_SIZE # 0
  THEN [ok |-> FALSE, out |-> <<>>]
  ELSE LET p == [i \in 1..Len(bytes) |->
                   (bytes[i] + 1024
                      - (IF i <= AES_CBC_BLOCK_SIZE THEN iv[i]
                         ELSE bytes[i - AES_CBC_BLOCK_SIZE])
                      - BlockKey(aesKey, ((i - 1) % AES_CBC_BLOCK_SIZE) + 1))
                   % 256]
           n == p[Len(p)]
       IN IF /\ n \in 1..AES_CBC_BLOCK_SIZE
             /\ \A i \in (Len(p) - n + 1)..Len(p) : p[i] = n
          THEN [ok |-> TRUE, out |-> SubSeq(p, 1, Len(p) - n)]
          ELSE [ok |-> FALSE, out |-> <<>>]

----------------------------------------------------------------------------
(* The stream stages, each as what it does to the whole stream *)

\* the padding policy: the smallest bucket that holds n bytes
logPadSize(n) == ((n + PadBucket - 1) \div PadBucket) * PadBucket

appendPaddingStream(bytes) ==
  bytes \o Zeros(logPadSize(Len(bytes)) - Len(bytes))

prependIv_Drop(iv, bytes) == bytes

\* strictAssert(iv.byteLength === IV_LENGTH), prependStream(iv)
prependIv(iv, bytes) == iv \o bytes

appendMacStream(macKey, bytes) == bytes \o hmacSha256(macKey, bytes)

\* holds back the last MAC_LENGTH bytes: they are theirMac, the bytes
\* before them go on and into the hmac
getMacAndUpdateHmac(macKey, bytes) ==
  IF Len(bytes) < MAC_LENGTH
  THEN [ok |-> FALSE, out |-> <<>>, theirMac |-> <<>>, ourMac |-> <<>>]
  ELSE LET body == SubSeq(bytes, 1, Len(bytes) - MAC_LENGTH)
       IN [ok |-> TRUE, out |-> body,
           theirMac |-> SubSeq(bytes, Len(bytes) - MAC_LENGTH + 1, Len(bytes)),
           ourMac |-> hmacSha256(macKey, body)]

\* the first IV_LENGTH bytes are the iv, the rest is deciphered
getIvAndDecipher(aesKey, bytes) ==
  IF Len(bytes) < IV_LENGTH
  THEN [ok |-> FALSE, out |-> <<>>, iv |-> <<>>]
  ELSE LET iv == SubSeq(bytes, 1, IV_LENGTH)
           d == createDecipheriv(aesKey, iv, SubSeq(bytes, IV_LENGTH + 1, Len(bytes)))
       IN [ok |-> d.ok, out |-> d.out, iv |-> iv]

trimPadding(size, bytes) ==
  SubSeq(bytes, 1, IF size < Len(bytes) THEN size ELSE Len(bytes))

----------------------------------------------------------------------------
(* Calls: Init *)

DefaultArgs ==
  [keys |-> KeysA, keysForm |-> "direct", keysBase64 |-> toBase64(KeysA),
   env |-> "production", ivReason |-> "none",
   digestToMatchLen |-> DIGEST_LENGTH, digestMatches |-> TRUE,
   skipPadding |-> FALSE,
   type |-> "standard", outer |-> FALSE,
   theirMac |-> "good", theirDigest |-> "good", theirOuterMac |-> "good",
   pathExists |-> TRUE, ensureOk |-> TRUE, openOk |-> TRUE]

EncryptArgs ==
  { [DefaultArgs EXCEPT !.keys = k, !.env = e, !.ivReason = r,
                        !.digestToMatchLen = n, !.digestMatches = m,
                        !.skipPadding = s] :
      k \in {KeysA, ShortKeys, LongKeys}, e \in {"test", "production"},
      r \in {"none", "test", "reencrypting-for-backup"},
      n \in {DIGEST_LENGTH, DIGEST_LENGTH - 1}, m \in BOOLEAN, s \in BOOLEAN }

\* the fields a call does not read keep their defaults
EncryptArgsRead ==
  { a \in EncryptArgs :
      /\ a.ivReason # "reencrypting-for-backup"
           => a.digestToMatchLen = DIGEST_LENGTH /\ a.digestMatches
      /\ a.digestToMatchLen # DIGEST_LENGTH => a.digestMatches }

DecryptArgs ==
  { [DefaultArgs EXCEPT !.keysForm = f, !.keysBase64 = toBase64(k),
                        !.type = t, !.outer = o, !.theirMac = m,
                        !.theirDigest = d, !.theirOuterMac = om,
                        !.pathExists = p] :
      f \in {"direct", "base64"}, k \in {KeysA, ShortKeys, LongKeys},
      t \in {"standard", "local", "backupThumbnail"}, o \in BOOLEAN,
      m \in {"good", "bad"}, d \in {"good", "bad"}, om \in {"good", "bad"},
      p \in BOOLEAN }

DecryptArgsRead ==
  { a \in DecryptArgs :
      /\ a.keysForm = "direct" => a.keysBase64 = toBase64(KeysA)
      /\ ~a.outer => a.theirOuterMac = "good"
      /\ (~a.pathExists \/ ~splitKeys(fromBase64(a.keysBase64)).ok)
           => /\ a.theirMac = "good" /\ a.theirDigest = "good"
              /\ a.theirOuterMac = "good" /\ ~a.outer /\ a.type = "standard" }

CreateArgs(S) ==
  S \cup { [DefaultArgs EXCEPT !.ensureOk = FALSE],
           [DefaultArgs EXCEPT !.openOk = FALSE] }

ArgsOf(o) ==
  CASE o = "encrypt" -> EncryptArgsRead
    [] o = "encryptToDisk" ->
         EncryptArgsRead \cup { [DefaultArgs EXCEPT !.ensureOk = FALSE] }
    [] o = "decryptToSink" -> DecryptArgsRead
    [] o = "decrypt" -> CreateArgs(DecryptArgsRead)
    [] o = "reencrypt" -> CreateArgs(DecryptArgsRead)

Ops == {"encrypt", "encryptToDisk", "decryptToSink", "decrypt", "reencrypt"}

Idle == [st |-> "idle", left |-> 0, err |-> ""]
NoBridge == [buf |-> 0, ended |-> FALSE, err |-> "", by |-> ""]
NoData == [stage |-> "none"]

InitCall ==
  /\ op \in Ops
  /\ args \in ArgsOf(op)
  /\ pc = "start"
  /\ file = FALSE
  /\ out = [chunks |-> 0, ended |-> FALSE]
  /\ writeFd = "none"
  /\ readFd = "none"
  /\ wstream = "none"
  /\ dec = Idle
  /\ enc = Idle
  /\ bridge = NoBridge
  /\ log = {}
  /\ unlinked = "no"
  /\ caught = ""
  /\ outcome = [st |-> "pending", err |-> ""]

Init == InitCall /\ data = NoData

----------------------------------------------------------------------------
(* encryptAttachmentV2 *)

FileOps == {"encryptToDisk", "decrypt", "reencrypt"}

\* randomBytes(KEY_SET_LENGTH)
generateKeys == {KeysA, KeysB}

\* The props encryptAttachmentV2 is called with: the caller's, or those
\* decryptAndReencryptLocally passes (fresh keys, the bridge, nothing else).
encProps(k) ==
  IF op = "reencrypt"
  THEN [keys |-> k, ivReason |-> "none", digestToMatchLen |-> DIGEST_LENGTH,
        digestMatches |-> TRUE, skipPadding |-> FALSE]
  ELSE [keys |-> args.keys, ivReason |-> args.ivReason,
        digestToMatchLen |-> args.digestToMatchLen,
        digestMatches |-> args.digestMatches, skipPadding |-> args.skipPadding]

\* The call runs to its first await: it has thrown, or its pipeline runs.
encStart(k) ==
  LET p == encProps(k)
      v == encryptValidate(p.keys, p.ivReason, p.digestToMatchLen,
                           p.skipPadding, args.env)
  IN IF v = "ok"
     THEN [st |-> "pipe", left |-> IF op = "reencrypt" THEN 0 ELSE NumChunks,
           err |-> ""]
     ELSE [st |-> "rejected",
           left |-> IF op = "reencrypt" THEN 0 ELSE NumChunks, err |-> v]

\* The sink takes bytes: a WriteStream writes once its file is open.
EncSinkReady == op = "encrypt" \/ wstream = "open"

EncSourceHasChunk ==
  IF op = "reencrypt" THEN bridge.buf > 0 /\ bridge.err = "" ELSE enc.left > 0

EncSourceEnded_Drained ==
  IF op = "reencrypt"
  THEN bridge.buf = 0 /\ bridge.err = ""
  ELSE enc.left = 0

\* the source has ended: a stream or file read to its end, or, in
\* decryptAndReencryptLocally, the passthrough ended by the decrypt pipeline
EncSourceEnded ==
  IF op = "reencrypt"
  THEN bridge.ended /\ bridge.buf = 0 /\ bridge.err = ""
  ELSE enc.left = 0

\* destroy() of the WriteStream: a pending open completes, then the fd closes
destroyWStream(w) == IF w \in {"opening", "open"} THEN "closed" ELSE w

\* fs.open(path, 'w') of createWriteStream completes: O_CREAT | O_TRUNC
WStreamOpen ==
  /\ wstream = "opening"
  /\ wstream' = "open"
  /\ file' = TRUE
  /\ UNCHANGED <<op, args, pc, out, writeFd, readFd, dec, enc, bridge, log,
                 unlinked, caught, outcome, data>>

\* one chunk of the source through the stages to the sink
EncRead ==
  /\ enc.st = "pipe"
  /\ EncSinkReady
  /\ EncSourceHasChunk
  /\ IF op = "reencrypt"
     THEN /\ bridge' = [bridge EXCEPT !.buf = @ - 1]
          /\ enc' = enc
     ELSE /\ enc' = [enc EXCEPT !.left = @ - 1]
          /\ bridge' = bridge
  /\ out' = [out EXCEPT !.chunks = @ + 1]
  /\ UNCHANGED <<op, args, pc, file, writeFd, readFd, wstream, dec, log,
                 unlinked, caught, outcome, data>>

\* The source ended: the stages flush (padding, last block, MAC), the sink
\* finishes and closes, the pipeline resolves, and the function goes on to
\* its return: the digestToMatch comparison of a backup re-encryption.
EncFinal ==
  /\ enc.st = "pipe"
  /\ EncSinkReady
  /\ EncSourceEnded
  /\ out' = [chunks |-> out.chunks + 1, ended |-> TRUE]
  /\ wstream' = destroyWStream(wstream)
  /\ enc' = IF /\ encProps(KeysA).ivReason = "reencrypting-for-backup"
               /\ ~encProps(KeysA).digestMatches
            THEN [enc EXCEPT !.st = "rejected",
                             !.err = "ReencryptedDigestMismatchError"]
            ELSE [enc EXCEPT !.st = "resolved"]
  /\ UNCHANGED <<op, args, pc, file, writeFd, readFd, dec, bridge, log,
                 unlinked, caught, outcome, data>>

\* The pipeline fails with e: every stream of it is destroyed, the catch
\* logs and rethrows.
EncFail(e) ==
  /\ wstream' = destroyWStream(wstream)
  /\ file' = (file \/ wstream = "opening")
  /\ log' = log \cup {"encryptAttachmentV2"}
  /\ enc' = [enc EXCEPT !.st = "rejected", !.err = e]
  /\ bridge' = IF op = "reencrypt" /\ bridge.err = ""
               THEN [bridge EXCEPT !.err = e, !.by = "enc"]
               ELSE bridge
  /\ UNCHANGED <<op, args, pc, out, writeFd, readFd, dec, unlinked, caught,
                 outcome, data>>

\* reading the plaintext source fails
EncSourceError ==
  /\ enc.st = "pipe"
  /\ op # "reencrypt"
  /\ enc.left > 0
  /\ EncFail("ReadError")

\* opening the sink's file, or a write to the sink, fails
EncSinkError ==
  /\ enc.st = "pipe"
  /\ op = "encrypt" \/ wstream \in {"opening", "open"}
  /\ EncSourceHasChunk \/ EncSourceEnded
  /\ EncFail("WriteError")

\* the bridge was destroyed by the failing decrypt pipeline
EncBridgeError ==
  /\ enc.st = "pipe"
  /\ op = "reencrypt"
  /\ bridge.err # ""
  /\ bridge.by = "dec"
  /\ EncFail(bridge.err)

----------------------------------------------------------------------------
(* decryptAttachmentV2ToSink *)

\* The call runs to its first await: the keysBase64 form is decoded and
\* split, which may throw, then open(ciphertextPath) is awaited.
decStart ==
  IF args.keysForm = "base64" /\ ~splitKeys(fromBase64(args.keysBase64)).ok
  THEN [st |-> "rejected", left |-> 0, err |-> "KeyLengthError"]
  ELSE [st |-> "opening", left |-> NumChunks, err |-> ""]

DecSinkTakes ==
  op = "reencrypt" => bridge.err = "" /\ bridge.buf < BridgeCap

\* What the failing pipeline, the catch and the finally do: the read stream
\* and the sink are destroyed, the error is logged unless it is an abort,
\* readFd is closed, the error is rethrown.
DecFail(e) ==
  /\ readFd' = IF readFd = "open" THEN "closed" ELSE readFd
  /\ writeFd' = IF op = "decrypt" /\ writeFd = "open" THEN "closed" ELSE writeFd
  /\ bridge' = IF op = "reencrypt" /\ bridge.err = ""
               THEN [bridge EXCEPT !.err = e, !.by = "dec"]
               ELSE bridge
  /\ log' = log \cup decCatchLog(e)
  /\ dec' = [dec EXCEPT !.st = "rejected", !.err = e]
  /\ UNCHANGED <<op, args, pc, file, out, wstream, enc, unlinked, caught,
                 outcome, data>>

\* open(ciphertextPath, 'r') settles
DecOpen ==
  /\ dec.st = "opening"
  /\ IF args.pathExists
     THEN /\ readFd' = "open"
          /\ dec' = [dec EXCEPT !.st = "pipe"]
          /\ UNCHANGED <<op, args, pc, file, out, writeFd, wstream, enc,
                         bridge, log, unlinked, caught, outcome, data>>
     ELSE /\ log' = log \cup decCatchLog("ReadPathError")
          /\ dec' = [dec EXCEPT !.st = "rejected", !.err = "ReadPathError"]
          /\ UNCHANGED <<op, args, pc, file, out, writeFd, readFd, wstream,
                         enc, bridge, unlinked, caught, outcome, data>>

\* one chunk of the ciphertext file through the stages to the sink
DecRead ==
  /\ dec.st = "pipe"
  /\ dec.left > 0
  /\ DecSinkTakes
  /\ dec' = [dec EXCEPT !.left = @ - 1]
  /\ IF op = "reencrypt"
     THEN /\ bridge' = [bridge EXCEPT !.buf = @ + 1]
          /\ out' = out
     ELSE /\ out' = [out EXCEPT !.chunks = @ + 1]
          /\ bridge' = bridge
  /\ UNCHANGED <<op, args, pc, file, writeFd, readFd, wstream, enc, log,
                 unlinked, caught, outcome, data>>

DecVerdict ==
  finalizer("good", args.theirMac, args.type, "good", args.theirDigest,
            args.outer, "good", args.theirOuterMac)

DecFinalize_EndFirst ==
  /\ dec.st = "pipe"
  /\ dec.left = 0
  /\ op = "reencrypt" => bridge.err = ""
  /\ dec' = [dec EXCEPT !.st = "checked"]
  /\ UNCHANGED <<op, args, pc, file, out, writeFd, readFd, wstream, enc,
                 bridge, log, unlinked, caught, outcome, data>>

\* The file is read to its end and the stages have flushed: finalStream
\* runs the finalizer, and fails the pipeline with what it throws.
DecFinalize ==
  /\ dec.st = "pipe"
  /\ dec.left = 0
  /\ op = "reencrypt" => bridge.err = ""
  /\ IF DecVerdict = "ok"
     THEN /\ dec' = [dec EXCEPT !.st = "checked"]
          /\ UNCHANGED <<op, args, pc, file, out, writeFd, readFd, wstream,
                         enc, bridge, log, unlinked, caught, outcome, data>>
     ELSE DecFail(DecVerdict)

\* finalStream ends: end-of-stream reaches the sink, the pipeline resolves,
\* the finally closes readFd and the function returns.
DecSinkEnd ==
  /\ dec.st = "checked"
  /\ op = "reencrypt" => bridge.err = ""
  /\ IF op = "reencrypt"
     THEN /\ bridge' = [bridge EXCEPT !.ended = TRUE]
          /\ out' = out
     ELSE /\ out' = [out EXCEPT !.ended = TRUE]
          /\ bridge' = bridge
  /\ readFd' = "closed"
  /\ writeFd' = IF op = "decrypt" THEN "closed" ELSE writeFd
  /\ dec' = [dec EXCEPT !.st = "resolved"]
  /\ UNCHANGED <<op, args, pc, file, wstream, enc, log, unlinked, caught,
                 outcome, data>>

\* reading the ciphertext file fails
DecSourceError ==
  /\ dec.st = "pipe"
  /\ dec.left > 0
  /\ DecFail("ReadError")

\* a write to the sink fails
DecSinkError ==
  /\ dec.st = "pipe"
  /\ op \in {"decrypt", "decryptToSink"}
  /\ dec.left > 0
  /\ DecFail("WriteError")

\* the pipeline is aborted from outside
DecAbort ==
  /\ dec.st = "pipe"
  /\ DecFail("AbortError")

\* the bridge was destroyed by the failing encrypt pipeline
DecBridgeError ==
  /\ dec.st \in {"pipe", "checked"}
  /\ op = "reencrypt"
  /\ bridge.err # ""
  /\ bridge.by = "enc"
  /\ DecFail(bridge.err)

----------------------------------------------------------------------------
(* The entry points *)

Settle(st, err) ==
  /\ outcome' = [st |-> st, err |-> err]
  /\ pc' = "done"

\* what the catch of a file-producing entry point does with error e: the
\* site's log entry (encryptAttachmentV2ToDisk has none), safeUnlinkSync,
\* throw; then the finally, which closes writeFd.
GuardCatch(site, e) ==
  \E fault \in BOOLEAN :
    LET u == safeUnlinkSync(file, fault)
    IN /\ file' = u.file
       /\ unlinked' = u.result
       /\ log' = log \cup site \cup u.log
       /\ Settle("rejected", IF u.err # "" THEN u.err ELSE e)
       /\ writeFd' = IF writeFd = "open" THEN "closed" ELSE writeFd

\* encryptAttachmentV2 called with the caller's sink
E_Call ==
  /\ op = "encrypt"
  /\ pc = "start"
  /\ enc' = encStart(args.keys)
  /\ pc' = "await"
  /\ UNCHANGED <<op, args, file, out, writeFd, readFd, wstream, dec, bridge,
                 log, unlinked, caught, outcome, data>>

E_Settle ==
  /\ op = "encrypt"
  /\ pc = "await"
  /\ enc.st \in {"resolved", "rejected"}
  /\ Settle(enc.st, enc.err)
  /\ UNCHANGED <<op, args, file, out, writeFd, readFd, wstream, dec, enc,
                 bridge, log, unlinked, caught, data>>

\* encryptAttachmentV2ToDisk: await ensureFile(absoluteTargetPath)
E2D_EnsureFile ==
  /\ op = "encryptToDisk"
  /\ pc = "start"
  /\ IF args.ensureOk
     THEN /\ file' = TRUE
          /\ pc' = "call"
          /\ outcome' = outcome
     ELSE /\ file' = file
          /\ Settle("rejected", "EnsureFileError")
  /\ UNCHANGED <<op, args, out, writeFd, readFd, wstream, dec, enc, bridge,
                 log, unlinked, caught, data>>

\* the argument createWriteStream(absoluteTargetPath) is evaluated, then
\* encryptAttachmentV2 is called
E2D_Call ==
  /\ op = "encryptToDisk"
  /\ pc = "call"
  /\ wstream' = "opening"
  /\ enc' = encStart(args.keys)
  /\ pc' = "await"
  /\ UNCHANGED <<op, args, file, out, writeFd, readFd, dec, bridge, log,
                 unlinked, caught, outcome, data>>

E2D_Return ==
  /\ op = "encryptToDisk"
  /\ pc = "await"
  /\ enc.st = "resolved"
  /\ Settle("resolved", "")
  /\ UNCHANGED <<op, args, file, out, writeFd, readFd, wstream, dec, enc,
                 bridge, log, unlinked, caught, data>>

E2D_Catch ==
  /\ op = "encryptToDisk"
  /\ pc = "await"
  /\ enc.st = "rejected"
  /\ GuardCatch({}, enc.err)
  /\ UNCHANGED <<op, args, out, readFd, wstream, dec, enc, bridge, caught,
                 data>>

\* decryptAttachmentV2ToSink called with the caller's sink
S_Call ==
  /\ op = "decryptToSink"
  /\ pc = "start"
  /\ dec' = decStart
  /\ pc' = "await"
  /\ UNCHANGED <<op, args, file, out, writeFd, readFd, wstream, enc, bridge,
                 log, unlinked, caught, outcome, data>>

S_Settle ==
  /\ op = "decryptToSink"
  /\ pc = "await"
  /\ dec.st \in {"resolved", "rejected"}
  /\ Settle(dec.st, dec.err)
  /\ UNCHANGED <<op, args, file, out, writeFd, readFd, wstream, dec, enc,
                 bridge, log, unlinked, caught, data>>

\* decryptAttachmentV2 and decryptAndReencryptLocally: ensureFile, then
\* open(absoluteTargetPath, 'w'); a failure of either is wrapped and thrown
\* into the outer catch.
CreateWritePath ==
  /\ op \in {"decrypt", "reencrypt"}
  /\ pc = "start"
  /\ IF args.ensureOk /\ args.openOk
     THEN /\ file' = TRUE
          /\ writeFd' = "open"
          /\ pc' = "call"
          /\ caught' = caught
     ELSE /\ file' = args.ensureOk
          /\ writeFd' = writeFd
          /\ pc' = "catch"
          /\ caught' = "CreateWritePathError"
  /\ UNCHANGED <<op, args, out, readFd, wstream, dec, enc, bridge, log,
                 unlinked, outcome, data>>

\* decryptAttachmentV2ToSink(options, writeFd.createWriteStream())
D_Call ==
  /\ op = "decrypt"
  /\ pc = "call"
  /\ dec' = decStart
  /\ pc' = "await"
  /\ UNCHANGED <<op, args, file, out, writeFd, readFd, wstream, enc, bridge,
                 log, unlinked, caught, outcome, data>>

D_Return ==
  /\ op = "decrypt"
  /\ pc = "await"
  /\ dec.st = "resolved"
  /\ Settle("resolved", "")
  /\ writeFd' = IF writeFd = "open" THEN "closed" ELSE writeFd
  /\ UNCHANGED <<op, args, file, out, readFd, wstream, dec, enc, bridge, log,
                 unlinked, caught, data>>

D_Catch ==
  /\ op = "decrypt"
  /\ pc = "catch" \/ (pc = "await" /\ dec.st = "rejected")
  /\ GuardCatch({"decryptAttachmentV2"},
                IF pc = "catch" THEN caught ELSE dec.err)
  /\ UNCHANGED <<op, args, out, readFd, wstream, dec, enc, bridge, caught,
                 data>>

\* decryptAndReencryptLocally: generateKeys(), new PassThrough(), then the
\* array given to Promise.all is built: decryptAttachmentV2ToSink is
\* called, createWriteStream and encryptAttachmentV2 are called, and the
\* encryptor's promise is awaited there.
R_Call ==
  /\ op = "reencrypt"
  /\ pc = "call"
  /\ dec' = decStart
  /\ wstream' = "opening"
  /\ \E k \in generateKeys : enc' = encStart(k)
  /\ pc' = "awaitEnc"
  /\ UNCHANGED <<op, args, file, out, writeFd, readFd, bridge, log, unlinked,
                 caught, outcome, data>>

\* the encryptor has resolved: Promise.all is called and awaited
R_EncDone ==
  /\ op = "reencrypt"
  /\ pc = "awaitEnc"
  /\ enc.st = "resolved"
  /\ pc' = "awaitAll"
  /\ UNCHANGED <<op, args, file, out, writeFd, readFd, wstream, dec, enc,
                 bridge, log, unlinked, caught, outcome, data>>

R_Return ==
  /\ op = "reencrypt"
  /\ pc = "awaitAll"
  /\ dec.st = "resolved"
  /\ Settle("resolved", "")
  /\ writeFd' = IF writeFd = "open" THEN "closed" ELSE writeFd
  /\ UNCHANGED <<op, args, file, out, readFd, wstream, dec, enc, bridge, log,
                 unlinked, caught, data>>

R_Catch ==
  /\ op = "reencrypt"
  /\ \/ pc = "catch"
     \/ pc = "awaitEnc" /\ enc.st = "rejected"
     \/ pc = "awaitAll" /\ dec.st = "rejected"
  /\ GuardCatch({"decryptAndReencryptLocally"},
                CASE pc = "catch" -> caught
                  [] pc = "awaitEnc" -> enc.err
                  [] pc = "awaitAll" -> dec.err)
  /\ UNCHANGED <<op, args, out, readFd, wstream, dec, enc, bridge, caught,
                 data>>

----------------------------------------------------------------------------

Next ==
  \/ E_Call \/ E_Settle
  \/ E2D_EnsureFile \/ E2D_Call \/ E2D_Return \/ E2D_Catch
  \/ S_Call \/ S_Settle
  \/ CreateWritePath \/ D_Call \/ D_Return \/ D_Catch
  \/ R_Call \/ R_EncDone \/ R_Return \/ R_Catch
  \/ WStreamOpen
  \/ EncRead \/ EncFinal \/ EncSourceError \/ EncSinkError \/ EncBridgeError
  \/ DecOpen \/ DecRead \/ DecFinalize \/ DecSinkEnd
  \/ DecSourceError \/ DecSinkError \/ DecAbort \/ DecBridgeError

Spec == Init /\ [][Next]_vars

----------------------------------------------------------------------------
(* The two pipelines over whole byte sequences *)

NoIv == [reason |-> "none", iv |-> <<>>, digestToMatch |-> <<>>]

NoEncrypted ==
  [err |-> "", sink |-> <<>>, digest |-> <<>>, iv |-> <<>>,
   plaintextHash |-> toHex(<<>>), ciphertextSize |-> 0]

measureSize(bytes) == Len(bytes)

getAesCbcCiphertextLength_Ceil(plaintextLength) ==
  ((plaintextLength + AES_CBC_BLOCK_SIZE - 1) \div AES_CBC_BLOCK_SIZE)
    * AES_CBC_BLOCK_SIZE

\* (1 + Math.floor(plaintextLength / AES_CBC_BLOCK_SIZE)) * AES_CBC_BLOCK_SIZE
getAesCbcCiphertextLength(plaintextLength) ==
  (1 + (plaintextLength \div AES_CBC_BLOCK_SIZE)) * AES_CBC_BLOCK_SIZE

getAttachmentCiphertextLength(plaintextLength) ==
  LET paddedPlaintextSize == logPadSize(plaintextLength)
  IN IV_LENGTH + getAesCbcCiphertextLength(paddedPlaintextSize)
       + ATTACHMENT_MAC_LENGTH

encryptAttachmentV2_NoDigestToMatch(keys, plaintext, dangerousIv, dangerousTestOnlySkipPadding, env, freshIv) ==
  LET verdict == encryptValidate(keys, dangerousIv.reason,
                                 Len(dangerousIv.digestToMatch),
                                 dangerousTestOnlySkipPadding, env)
      k == splitKeys(keys)
      iv == IF dangerousIv.reason # "none" THEN dangerousIv.iv ELSE freshIv
      padded == IF dangerousTestOnlySkipPadding THEN plaintext
                ELSE appendPaddingStream(plaintext)
      frame == appendMacStream(k.macKey,
                 prependIv(iv, createCipheriv(k.aesKey, iv, padded)))
  IN IF verdict # "ok" THEN [err |-> verdict, sink |-> <<>>, digest |-> <<>>,
                             iv |-> <<>>, plaintextHash |-> toHex(<<>>),
                             ciphertextSize |-> 0]
     ELSE [err |-> "", sink |-> frame, digest |-> sha256(frame), iv |-> iv,
           plaintextHash |-> toHex(sha256(plaintext)),
           ciphertextSize |-> Len(frame)]

\* what encryptAttachmentV2 writes to its sink and returns; freshIv is the
\* value of _generateAttachmentIv() for this call
encryptAttachmentV2(keys, plaintext, dangerousIv, dangerousTestOnlySkipPadding, env, freshIv) ==
  LET verdict == encryptValidate(keys, dangerousIv.reason,
                                 Len(dangerousIv.digestToMatch),
                                 dangerousTestOnlySkipPadding, env)
      k == splitKeys(keys)
      iv == IF dangerousIv.reason # "none" THEN dangerousIv.iv ELSE freshIv
      padded == IF dangerousTestOnlySkipPadding THEN plaintext
                ELSE appendPaddingStream(plaintext)
      frame == appendMacStream(k.macKey,
                 prependIv(iv, createCipheriv(k.aesKey, iv, padded)))
      ourDigest == sha256(frame)
  IN IF verdict # "ok" THEN [NoEncrypted EXCEPT !.err = verdict]
     ELSE IF /\ dangerousIv.reason = "reencrypting-for-backup"
             /\ ~constantTimeEqual(ourDigest, dangerousIv.digestToMatch)
     THEN [NoEncrypted EXCEPT !.err = "ReencryptedDigestMismatchError",
                              !.sink = frame]
     ELSE [err |-> "", sink |-> frame, digest |-> ourDigest, iv |-> iv,
           plaintextHash |-> toHex(sha256(plaintext)),
           ciphertextSize |-> measureSize(frame)]

NoOuterEncryption == [given |-> FALSE, aesKey |-> <<>>, macKey |-> <<>>]

NoDecrypted ==
  [err |-> "", sink |-> <<>>, ended |-> FALSE, iv |-> <<>>,
   plaintextHash |-> toHex(<<>>)]

decryptAttachmentV2ToSink_HashBeforeTrim(bytes, options) ==
  LET outer == options.outerEncryption
      outerMac == getMacAndUpdateHmac(outer.macKey, bytes)
      outerDec == getIvAndDecipher(outer.aesKey, outerMac.out)
      inner == IF outer.given THEN outerDec.out ELSE bytes
      mac == getMacAndUpdateHmac(options.macKey, inner)
      deciphered == getIvAndDecipher(options.aesKey, mac.out)
      plain == trimPadding(options.size, deciphered.out)
      verdict == finalizer(mac.ourMac, mac.theirMac, options.type,
                           sha256(inner), options.theirDigest,
                           outer.given, outerMac.ourMac, outerMac.theirMac)
  IN IF outer.given /\ ~outerMac.ok
       THEN [NoDecrypted EXCEPT !.err = "TruncatedFrame"]
     ELSE IF outer.given /\ ~outerDec.ok
       THEN [NoDecrypted EXCEPT !.err = "DecipherError"]
     ELSE IF ~mac.ok THEN [NoDecrypted EXCEPT !.err = "TruncatedFrame"]
     ELSE IF ~deciphered.ok THEN [NoDecrypted EXCEPT !.err = "DecipherError"]
     ELSE IF verdict # "ok"
       THEN [NoDecrypted EXCEPT !.err = verdict, !.sink = plain]
     ELSE [err |-> "", sink |-> plain, ended |-> TRUE, iv |-> deciphered.iv,
           plaintextHash |-> toHex(sha256(deciphered.out))]

decryptAttachmentV2ToSink_DigestOfFile(bytes, options) ==
  LET outer == options.outerEncryption
      outerMac == getMacAndUpdateHmac(outer.macKey, bytes)
      outerDec == getIvAndDecipher(outer.aesKey, outerMac.out)
      inner == IF outer.given THEN outerDec.out ELSE bytes
      mac == getMacAndUpdateHmac(options.macKey, inner)
      deciphered == getIvAndDecipher(options.aesKey, mac.out)
      plain == trimPadding(options.size, deciphered.out)
      verdict == finalizer(mac.ourMac, mac.theirMac, options.type,
                           sha256(bytes), options.theirDigest,
                           outer.given, outerMac.ourMac, outerMac.theirMac)
  IN IF outer.given /\ ~outerMac.ok
       THEN [NoDecrypted EXCEPT !.err = "TruncatedFrame"]
     ELSE IF outer.given /\ ~outerDec.ok
       THEN [NoDecrypted EXCEPT !.err = "DecipherError"]
     ELSE IF ~mac.ok THEN [NoDecrypted EXCEPT !.err = "TruncatedFrame"]
     ELSE IF ~deciphered.ok THEN [NoDecrypted EXCEPT !.err = "DecipherError"]
     ELSE IF verdict # "ok"
       THEN [NoDecrypted EXCEPT !.err = verdict, !.sink = plain]
     ELSE [err |-> "", sink |-> plain, ended |-> TRUE, iv |-> deciphered.iv,
           plaintextHash |-> toHex(sha256(plain))]

\* what decryptAttachmentV2ToSink delivers to its sink and returns for the
\* bytes of the ciphertext file.  A stage that fails in its flush fails
\* the pipeline before the stages after it are flushed; the sink has then
\* received at most a prefix of the plaintext, recorded as nothing.
decryptAttachmentV2ToSink(bytes, options) ==
  LET outer == options.outerEncryption
      outerMac == getMacAndUpdateHmac(outer.macKey, bytes)
      outerDec == getIvAndDecipher(outer.aesKey, outerMac.out)
      inner == IF outer.given THEN outerDec.out ELSE bytes
      mac == getMacAndUpdateHmac(options.macKey, inner)
      deciphered == getIvAndDecipher(options.aesKey, mac.out)
      plain == trimPadding(options.size, deciphered.out)
      verdict == finalizer(mac.ourMac, mac.theirMac, options.type,
                           sha256(inner), options.theirDigest,
                           outer.given, outerMac.ourMac, outerMac.theirMac)
  IN IF outer.given /\ ~outerMac.ok
       THEN [NoDecrypted EXCEPT !.err = "TruncatedFrame"]
     ELSE IF outer.given /\ ~outerDec.ok
       THEN [NoDecrypted EXCEPT !.err = "DecipherError"]
     ELSE IF ~mac.ok THEN [NoDecrypted EXCEPT !.err = "TruncatedFrame"]
     ELSE IF ~deciphered.ok THEN [NoDecrypted EXCEPT !.err = "DecipherError"]
     ELSE IF verdict # "ok"
       THEN [NoDecrypted EXCEPT !.err = verdict, !.sink = plain]
     ELSE [err |-> "", sink |-> plain, ended |-> TRUE, iv |-> deciphered.iv,
           plaintextHash |-> toHex(sha256(plain))]

NoReencrypted ==
  [err |-> "", file |-> <<>>, iv |-> toBase64(<<>>),
   localKey |-> toBase64(<<>>), plaintextHash |-> toHex(<<>>), version |-> 0]

decryptAndReencryptLocally_OldKeys(bytes, options, keys, freshIv) ==
  LET result == decryptAttachmentV2ToSink(bytes, options)
      written == encryptAttachmentV2(keys, result.sink, NoIv, FALSE,
                                     "production", freshIv)
  IN IF result.err # "" THEN [NoReencrypted EXCEPT !.err = result.err]
     ELSE [err |-> "", file |-> written.sink, iv |-> toBase64(result.iv),
           localKey |-> toBase64(options.aesKey \o options.macKey),
           plaintextHash |-> result.plaintextHash, version |-> 2]

decryptAndReencryptLocally_FreshIv(bytes, options, keys, freshIv) ==
  LET result == decryptAttachmentV2ToSink(bytes, options)
      written == encryptAttachmentV2(keys, result.sink, NoIv, FALSE,
                                     "production", freshIv)
  IN IF result.err # "" THEN [NoReencrypted EXCEPT !.err = result.err]
     ELSE IF written.err # "" THEN [NoReencrypted EXCEPT !.err = written.err]
     ELSE [err |-> "", file |-> written.sink, iv |-> toBase64(written.iv),
           localKey |-> toBase64(keys),
           plaintextHash |-> result.plaintextHash, version |-> 2]

\* what decryptAndReencryptLocally leaves in the file at the returned path
\* and returns, for the bytes of the ciphertext file; keys is the value of
\* generateKeys() and freshIv that of _generateAttachmentIv() for this
\* call.  The plaintext goes from the decryptor to the encryptor through
\* the PassThrough, which ends only when the decryptor's pipeline succeeds.
decryptAndReencryptLocally(bytes, options, keys, freshIv) ==
  LET result == decryptAttachmentV2ToSink(bytes, options)
      written == encryptAttachmentV2(keys, result.sink, NoIv, FALSE,
                                     "production", freshIv)
  IN IF result.err # "" THEN [NoReencrypted EXCEPT !.err = result.err]
     ELSE IF written.err # "" THEN [NoReencrypted EXCEPT !.err = written.err]
     ELSE [err |-> "", file |-> written.sink, iv |-> toBase64(result.iv),
           localKey |-> toBase64(keys),
           plaintextHash |-> result.plaintextHash, version |-> 2]

----------------------------------------------------------------------------
(* SpecData: a plaintext is encrypted, the frame may be changed and may be *)
(* wrapped in the outer layer, and the file is decrypted.                  *)

PlainBytes == {0, 9}

RECURSIVE SeqsUpTo(_, _)
SeqsUpTo(S, n) ==
  IF n = 0 THEN {<<>>}
  ELSE LET shorter == SeqsUpTo(S, n - 1)
       IN shorter \cup { Append(q, b) : q \in { r \in shorter : Len(r) = n - 1 },
                                         b \in S }

Plaintexts == SeqsUpTo(PlainBytes, MaxPlainLen)

IvA == [i \in 1..IV_LENGTH |-> (17 * i) % 256]
IvB == Zeros(IV_LENGTH)
OuterKeys == [i \in 1..KEY_SET_LENGTH |-> (5 * i + 1) % 256]
OuterIv == [i \in 1..IV_LENGTH |-> (3 * i + 2) % 256]

\* the byte at position i changed
changeByte(bytes, i) == [bytes EXCEPT ![i] = (@ + 1) % 256]

\* where a frame is changed: the first and the last byte of the IV, of
\* the ciphertext and of the MAC
TamperPlaces ==
  {"iv", "ivEnd", "ciphertextStart", "ciphertext", "macStart", "mac"}

TamperAt(bytes, where) ==
  CASE where = "iv" -> 1
    [] where = "ivEnd" -> IV_LENGTH
    [] where = "ciphertextStart" -> IV_LENGTH + 1
    [] where = "ciphertext" -> Len(bytes) - MAC_LENGTH
    [] where = "macStart" -> Len(bytes) - MAC_LENGTH + 1
    [] where = "mac" -> Len(bytes)

WrongDigest(d) == changeByte(d, 1)

\* how many bytes are cut off the end of a frame: one, a cipher block, the
\* MAC, and one more than the MAC
TruncateBy == {1, AES_CBC_BLOCK_SIZE, MAC_LENGTH, MAC_LENGTH + 1}

InitBytes(Ps) ==
  /\ op = "none"
  /\ args = DefaultArgs
  /\ pc = "start"
  /\ file = FALSE
  /\ out = [chunks |-> 0, ended |-> FALSE]
  /\ writeFd = "none"
  /\ readFd = "none"
  /\ wstream = "none"
  /\ dec = Idle
  /\ enc = Idle
  /\ bridge = NoBridge
  /\ log = {}
  /\ unlinked = "no"
  /\ caught = ""
  /\ outcome = [st |-> "pending", err |-> ""]
  /\ \E P \in Ps, K \in generateKeys :
       data = [stage |-> "plain", plaintext |-> P, keys |-> K,
               skipPadding |-> FALSE, wrapPadded |-> FALSE,
               encrypted |-> NoEncrypted, bytes |-> <<>>,
               tamper |-> "none", wrapped |-> FALSE, outerTamper |-> "none",
               options |-> [aesKey |-> <<>>, macKey |-> <<>>, size |-> 0,
                            type |-> "local", theirDigest |-> <<>>,
                            outerEncryption |-> NoOuterEncryption],
               decrypted |-> NoDecrypted,
               backupIv |-> NoIv, backupKeys |-> <<>>,
               backup |-> NoEncrypted,
               reencrypted |-> NoReencrypted,
               truncated |-> 0]

\* a short plaintext and a key set
InitData == InitBytes(Plaintexts)

\* encryptAttachmentV2 with the plaintext in memory and a collecting sink
DataEncrypt ==
  /\ data.stage = "plain"
  /\ \E iv \in {IvA, IvB} :
       LET r == encryptAttachmentV2(data.keys, data.plaintext, NoIv, FALSE,
                                    "production", iv)
       IN data' = [data EXCEPT !.stage = "frame", !.encrypted = r,
                               !.bytes = r.sink]
  /\ UNCHANGED callVars

\* one byte of the stored frame is changed
DataTamper ==
  /\ data.stage = "frame"
  /\ ~data.wrapped
  /\ data.tamper = "none"
  /\ data.truncated = 0
  /\ \E where \in TamperPlaces :
       data' = [data EXCEPT !.tamper = where,
                            !.bytes = changeByte(@, TamperAt(@, where))]
  /\ UNCHANGED callVars

\* the stored frame loses bytes at its end
DataTruncate ==
  /\ data.stage = "frame"
  /\ ~data.wrapped
  /\ data.tamper = "none"
  /\ data.truncated = 0
  /\ \E n \in TruncateBy :
       data' = [data EXCEPT !.truncated = n,
                            !.bytes = SubSeq(@, 1, Len(@) - n)]
  /\ UNCHANGED callVars

\* the frame, valid or with a changed MAC, is encrypted again under the
\* outer keys by encryptAttachmentV2: as it is, with
\* dangerousTestOnlySkipPadding, or, a valid frame, with the logical padding
\* the function adds otherwise
DataWrap ==
  /\ data.stage = "frame"
  /\ ~data.wrapped
  /\ data.truncated = 0
  /\ data.tamper \in {"none", "mac"}
  /\ \E skip \in BOOLEAN :
       /\ ~skip => data.tamper = "none"
       /\ data' = [data EXCEPT !.wrapped = TRUE, !.wrapPadded = ~skip,
                               !.bytes = encryptAttachmentV2(OuterKeys, @,
                                           NoIv, skip,
                                           IF skip THEN "test"
                                           ELSE "production", OuterIv).sink]
  /\ UNCHANGED callVars

\* the last byte of the outer frame, in its MAC, is changed
DataTamperOuter ==
  /\ data.stage = "frame"
  /\ data.wrapped /\ ~data.wrapPadded
  /\ data.outerTamper = "none"
  /\ data' = [data EXCEPT !.outerTamper = "mac",
                          !.bytes = changeByte(@, TamperAt(@, "mac"))]
  /\ UNCHANGED callVars

\* decryptAttachmentV2ToSink on the stored bytes with a collecting sink
DataDecrypt ==
  /\ data.stage = "frame"
  /\ \E K \in generateKeys, t \in {"standard", "local", "backupThumbnail"},
        d \in {data.encrypted.digest, WrongDigest(data.encrypted.digest),
               sha256(data.bytes)},
        size \in 0..logPadSize(Len(data.plaintext)) :
       /\ t # "standard" => d = data.encrypted.digest
       /\ (t # "standard" \/ d # data.encrypted.digest)
            => size = Len(data.plaintext)
       /\ LET o == [aesKey |-> splitKeys(K).aesKey,
                    macKey |-> splitKeys(K).macKey,
                    size |-> size,
                    type |-> t, theirDigest |-> d,
                    outerEncryption |->
                      IF data.wrapped
                      THEN [given |-> TRUE,
                            aesKey |-> splitKeys(OuterKeys).aesKey,
                            macKey |-> splitKeys(OuterKeys).macKey]
                      ELSE NoOuterEncryption]
          IN data' = [data EXCEPT !.stage = "decrypted", !.options = o,
                                  !.decrypted =
                                     decryptAttachmentV2ToSink(data.bytes, o)]
  /\ UNCHANGED callVars

\* the options of a decryption of the stored bytes
OptionsFor(K, t, d, size) ==
  [aesKey |-> splitKeys(K).aesKey, macKey |-> splitKeys(K).macKey,
   size |-> size, type |-> t, theirDigest |-> d,
   outerEncryption |->
     IF data.wrapped
     THEN [given |-> TRUE, aesKey |-> splitKeys(OuterKeys).aesKey,
           macKey |-> splitKeys(OuterKeys).macKey]
     ELSE NoOuterEncryption]

\* decryptAndReencryptLocally on the stored bytes, with the keys they were
\* made with
DataReencrypt ==
  /\ data.stage = "frame"
  /\ \E fresh \in generateKeys,
        t \in {"standard", "local"}, size \in {0, Len(data.plaintext)} :
       LET o == OptionsFor(data.keys, t, data.encrypted.digest, size)
       IN data' = [data EXCEPT !.stage = "reencrypted", !.options = o,
                               !.reencrypted =
                                  decryptAndReencryptLocally(data.bytes, o,
                                                             fresh, IvA)]
  /\ UNCHANGED callVars

\* the plaintext is encrypted again for the backup tier: encryptAttachmentV2
\* with dangerousIv of reason 'reencrypting-for-backup'
DataEncryptForBackup ==
  /\ data.stage = "frame"
  /\ data.tamper = "none" /\ data.truncated = 0 /\ ~data.wrapped
  /\ \E K \in generateKeys, iv \in {data.encrypted.iv, OuterIv},
        d \in {data.encrypted.digest, WrongDigest(data.encrypted.digest),
               SubSeq(data.encrypted.digest, 1, DIGEST_LENGTH - 1)} :
       LET dangerousIv == [reason |-> "reencrypting-for-backup", iv |-> iv,
                           digestToMatch |-> d]
       IN data' = [data EXCEPT !.stage = "backup",
                               !.backupIv = dangerousIv, !.backupKeys = K,
                               !.backup = encryptAttachmentV2(K, data.plaintext,
                                            dangerousIv, FALSE, "production",
                                            IvA)]
  /\ UNCHANGED callVars

NextData ==
  \/ DataEncrypt \/ DataTamper \/ DataWrap \/ DataTamperOuter \/ DataDecrypt
  \/ DataEncryptForBackup \/ DataReencrypt \/ DataTruncate

SpecData == InitData /\ [][NextData]_vars

\* plaintexts of every length up to MaxSizedLen, two AES blocks and more
MaxSizedLen == 33

SizedPlaintexts == { [i \in 1..n |-> (11 * i) % 256] : n \in 0..MaxSizedLen }

InitSize == InitBytes(SizedPlaintexts)

\* encryptAttachmentV2 with a collecting sink, with the logical padding or,
\* in the test environment, with dangerousTestOnlySkipPadding
SizeEncrypt ==
  /\ data.stage = "plain"
  /\ \E iv \in {IvA, IvB}, skip \in BOOLEAN :
       LET r == encryptAttachmentV2(data.keys, data.plaintext, NoIv, skip,
                                    IF skip THEN "test" ELSE "production", iv)
       IN data' = [data EXCEPT !.stage = "frame", !.encrypted = r,
                               !.bytes = r.sink, !.skipPadding = skip]
  /\ UNCHANGED callVars

NextSize == SizeEncrypt

SpecSize == InitSize /\ [][NextSize]_vars

----------------------------------------------------------------------------
(* The encrypt pipeline chunk by chunk (SpecStream) *)

\* plaintexts up to one AES block and a little more, read in chunks
MaxStreamLen == 17

StreamPlaintexts ==
  { [i \in 1..n |-> (11 * i) % 256] : n \in 0..MaxStreamLen }

peekAndUpdateHash_LastChunk(hash, chunk) == chunk

\* hash.update(chunk); callback(null, chunk): the state of a hash is what
\* it has been fed so far
peekAndUpdateHash(hash, chunk) == hash \o chunk

\* cipher.update(chunk): the whole blocks are enciphered and pushed, the
\* rest waits for more bytes
cipherUpdate(aesKey, cipher, chunk) ==
  LET all == cipher.buf \o chunk
      whole == (Len(all) \div AES_CBC_BLOCK_SIZE) * AES_CBC_BLOCK_SIZE
      pushed == cbcBlocks(aesKey, cipher.prev, SubSeq(all, 1, whole))
  IN [pushed |-> pushed,
      cipher |-> [buf |-> SubSeq(all, whole + 1, Len(all)),
                  prev |-> IF whole = 0 THEN cipher.prev
                           ELSE SubSeq(pushed, whole - AES_CBC_BLOCK_SIZE + 1,
                                       whole)]]

\* cipher.final(): the waiting bytes with their PKCS#7 padding
cipherFinal(aesKey, cipher) == cbcBlocks(aesKey, cipher.prev, pkcs7(cipher.buf))

\* bytes leave appendMacStream: peekAndUpdateHash(digest), measureSize,
\* then the sink, or a PassThrough that drops them
streamEmit(d, bytes) ==
  [d EXCEPT !.digest = peekAndUpdateHash(@, bytes),
            !.totalBytes = @ + Len(bytes),
            !.sink = IF d.sinkGiven THEN @ \o bytes ELSE @]

\* bytes leave the cipher: prependIv puts the IV before the first of them,
\* appendMacStream feeds them to its hmac and passes them on
streamCiphertext(d, bytes) ==
  IF bytes = <<>> THEN d
  ELSE LET withIv == IF d.ivSent THEN bytes ELSE prependIv(d.iv, bytes)
       IN streamEmit([d EXCEPT !.ivSent = TRUE, !.hmac = @ \o withIv], withIv)

\* a chunk of the source enters the pipeline
streamPlaintext(d, chunk) ==
  LET u == cipherUpdate(splitKeys(d.keys).aesKey, d.cipher, chunk)
  IN streamCiphertext([d EXCEPT !.cipher = u.cipher], u.pushed)

InitStream ==
  /\ op = "none"
  /\ args = DefaultArgs
  /\ pc = "start"
  /\ file = FALSE
  /\ out = [chunks |-> 0, ended |-> FALSE]
  /\ writeFd = "none"
  /\ readFd = "none"
  /\ wstream = "none"
  /\ dec = Idle
  /\ enc = Idle
  /\ bridge = NoBridge
  /\ log = {}
  /\ unlinked = "no"
  /\ caught = ""
  /\ outcome = [st |-> "pending", err |-> ""]
  /\ \E P \in StreamPlaintexts, K \in generateKeys, skip \in BOOLEAN,
        given \in BOOLEAN :
       data = [stage |-> "stream", plaintext |-> P, keys |-> K, iv |-> IvA,
               skipPadding |-> skip, sinkGiven |-> given,
               rest |-> P, reads |-> 0,
               plaintextHash |-> <<>>, size |-> 0,
               cipher |-> [buf |-> <<>>, prev |-> IvA],
               ivSent |-> FALSE, hmac |-> <<>>, digest |-> <<>>,
               totalBytes |-> 0, sink |-> <<>>,
               result |-> NoEncrypted]

\* the source delivers its next chunk, of any size
StreamChunk ==
  /\ data.stage = "stream"
  /\ data.rest # <<>>
  /\ \E n \in 1..Len(data.rest) :
       LET chunk == SubSeq(data.rest, 1, n)
           d == [data EXCEPT !.rest = SubSeq(@, n + 1, Len(@)),
                             !.reads = @ + 1,
                             !.plaintextHash = peekAndUpdateHash(@, chunk),
                             !.size = @ + n]
       IN data' = streamPlaintext(d, chunk)
  /\ UNCHANGED callVars

\* the source ends and the stages are flushed in their order:
\* appendPaddingStream pushes the zeros, the cipher its final block,
\* appendMacStream the MAC, measureSize reports; then the result is built
StreamEnd ==
  /\ data.stage = "stream"
  /\ data.rest = <<>>
  /\ LET k == splitKeys(data.keys)
         zeros == IF data.skipPadding THEN <<>>
                  ELSE Zeros(logPadSize(data.size) - data.size)
         padded == streamPlaintext(data, zeros)
         final == streamCiphertext(padded, cipherFinal(k.aesKey, padded.cipher))
         mac == hmacSha256(k.macKey, final.hmac)
         d == streamEmit(final, mac)
     IN data' = [d EXCEPT !.stage = "streamed",
                          !.result = [err |-> "", sink |-> d.sink,
                                      digest |-> sha256(d.digest),
                                      iv |-> d.iv,
                                      plaintextHash |->
                                         toHex(sha256(d.plaintextHash)),
                                      ciphertextSize |-> d.totalBytes]]
  /\ UNCHANGED callVars

NextStream == StreamChunk \/ StreamEnd

SpecStream == InitStream /\ [][NextStream]_vars

\* a call, or the bytes: the two views side by side
InitAll == Init \/ InitData
NextAll == Next \/ NextData
SpecAll == InitAll /\ [][NextAll]_vars

----------------------------------------------------------------------------
(* Properties of the bytes (SpecData) *)

Decrypted == data.stage = "decrypted"

\* the decryptor was given the keys the frame was made with
SameKeys ==
  /\ data.options.aesKey = splitKeys(data.keys).aesKey
  /\ data.options.macKey = splitKeys(data.keys).macKey

\* the inner frame as the file holds it: the file, or what the outer
\* frame without its MAC deciphers to
InnerFrame ==
  IF data.wrapped
  THEN createDecipheriv(data.options.outerEncryption.aesKey,
                        SubSeq(data.bytes, 1, IV_LENGTH),
                        SubSeq(data.bytes, IV_LENGTH + 1,
                               Len(data.bytes) - MAC_LENGTH)).out
  ELSE data.bytes

Body(frame) == SubSeq(frame, 1, Len(frame) - MAC_LENGTH)
Trailer(frame) == SubSeq(frame, Len(frame) - MAC_LENGTH + 1, Len(frame))

InnerMacMatches ==
  hmacSha256(data.options.macKey, Body(InnerFrame)) = Trailer(InnerFrame)
DigestMatches == sha256(InnerFrame) = data.options.theirDigest
OuterMacMatches ==
  hmacSha256(data.options.outerEncryption.macKey, Body(data.bytes))
    = Trailer(data.bytes)

FinalizerErrors == {"Bad MAC", "Bad digest", "Bad outer encryption MAC"}

\* C1: a frame made by encryptAttachmentV2 and left as it is decrypts,
\* with the same keys, size = |P| and in 'standard' mode the encryptor's
\* digest, without error to exactly the bytes of P, and the plaintextHash
\* returned is the encryptor's, the hex SHA-256 of the unpadded P.
C1_RoundTrip ==
  (/\ Decrypted
   /\ data.tamper = "none" /\ data.truncated = 0 /\ ~data.wrapped
   /\ SameKeys
   /\ data.options.size = Len(data.plaintext)
   /\ data.options.theirDigest = data.encrypted.digest)
    => /\ data.decrypted.err = ""
       /\ data.decrypted.sink = data.plaintext
       /\ data.decrypted.ended
       /\ data.decrypted.plaintextHash = data.encrypted.plaintextHash
       /\ data.decrypted.plaintextHash = toHex(sha256(data.plaintext))
       /\ HexLength(data.decrypted.plaintextHash) = 2 * DIGEST_LENGTH

\* C1 witness: a plaintext that ends in a zero byte, and is shorter than
\* its padded length, came back from a 'standard' decryption.
C1_Witness ==
  /\ Decrypted
  /\ data.plaintext = <<9, 0>>
  /\ data.options.type = "standard"
  /\ data.tamper = "none" /\ data.truncated = 0 /\ ~data.wrapped
  /\ data.decrypted.err = ""
  /\ data.decrypted.sink = <<9, 0>>

\* C2: decryptAttachmentV2ToSink returns a result only if the HMAC over
\* the inner frame's IV and ciphertext equals the frame's trailing MAC,
\* and in 'standard' mode the digest of the inner frame equals theirDigest,
\* and with outerEncryption the HMAC over the outer IV and ciphertext
\* equals the outer trailing MAC; in 'local' and 'backupThumbnail' modes
\* the outcome is the same whatever digest is passed.
C2_IntegrityGate ==
  Decrypted
    => /\ data.decrypted.err = ""
            => /\ InnerMacMatches
               /\ data.options.type = "standard" => DigestMatches
               /\ data.options.outerEncryption.given => OuterMacMatches
       /\ data.options.type # "standard"
            => \A d \in {data.encrypted.digest, WrongDigest(data.encrypted.digest)} :
                 decryptAttachmentV2ToSink(data.bytes,
                     [data.options EXCEPT !.theirDigest = d]).err
                   = data.decrypted.err

\* C2 witness: a wrapped frame passed all three checks in 'standard' mode.
C2_Witness ==
  /\ Decrypted
  /\ data.wrapped
  /\ data.options.type = "standard"
  /\ data.decrypted.err = ""
  /\ data.decrypted.sink = data.plaintext
  /\ data.plaintext # <<>>

\* C6: when the finalizer is reached, a mismatch of the inner MAC gives
\* 'Bad MAC' whatever the digest and the outer MAC are; with the inner MAC
\* matching, a digest mismatch in 'standard' mode gives 'Bad digest'
\* whatever the outer MAC is; with both passing, a mismatch of the outer
\* MAC gives 'Bad outer encryption MAC'.  A valid frame with a wrong
\* theirDigest fails with 'Bad digest', and a valid wrapped frame whose
\* outer MAC alone was altered fails with 'Bad outer encryption MAC'.
C6_CheckOrder ==
  Decrypted
    => /\ data.decrypted.err \in FinalizerErrors \cup {""}
            => /\ ~InnerMacMatches => data.decrypted.err = "Bad MAC"
               /\ (InnerMacMatches /\ data.options.type = "standard"
                     /\ ~DigestMatches)
                    => data.decrypted.err = "Bad digest"
               /\ (/\ InnerMacMatches
                   /\ data.options.type = "standard" => DigestMatches
                   /\ data.options.outerEncryption.given
                   /\ ~OuterMacMatches)
                    => data.decrypted.err = "Bad outer encryption MAC"
       /\ (/\ data.tamper = "none" /\ data.truncated = 0 /\ SameKeys
           /\ ~data.wrapPadded
           /\ data.options.type = "standard"
           /\ data.options.theirDigest # data.encrypted.digest)
            => data.decrypted.err = "Bad digest"
       /\ (/\ data.tamper = "none" /\ data.truncated = 0 /\ SameKeys
           /\ data.options.theirDigest = data.encrypted.digest
           /\ data.wrapped /\ data.outerTamper = "mac")
            => data.decrypted.err = "Bad outer encryption MAC"

\* C6 witness: the inner MAC, the digest and the outer MAC were all wrong
\* and the error was 'Bad MAC'.
C6_Witness ==
  /\ Decrypted
  /\ data.tamper = "mac"
  /\ data.wrapped /\ data.outerTamper = "mac"
  /\ SameKeys
  /\ data.options.type = "standard"
  /\ data.options.theirDigest # data.encrypted.digest
  /\ data.decrypted.err = "Bad MAC"

\* a valid inner frame inside an outer frame that was left as it is,
\* decrypted with the keys, the digest and the size of the inner frame
ValidWrapped ==
  /\ Decrypted
  /\ data.wrapped /\ data.outerTamper = "none"
  /\ data.tamper = "none" /\ data.truncated = 0
  /\ SameKeys
  /\ data.options.size = Len(data.plaintext)
  /\ data.options.theirDigest = data.encrypted.digest

\* C18 as the specification states it: a valid inner frame wrapped by
\* encryptAttachmentV2 under the outer keys decrypts successfully.
C18_WrappedDecrypts ==
  ValidWrapped => data.decrypted.err = ""

\* C18: with outerEncryption the outer MAC is taken off and the outer
\* frame deciphered before anything else: what is decrypted, hashed for
\* the digest and searched for the iv is the output of the outer decipher.
\* A successful decryption means the outer HMAC, taken over the outer IV
\* and ciphertext, equals the outer MAC, in 'standard' mode theirDigest is
\* the hash of the inner frame, and the iv returned is the inner frame's;
\* the hash of the file's bytes as theirDigest is refused.  A valid inner
\* frame wrapped by encryptAttachmentV2 without logical padding decrypts to
\* the plaintext.
C18_OuterLayer ==
  (Decrypted /\ data.wrapped)
    => /\ data.options.outerEncryption.given
       /\ data.decrypted.err = ""
            => /\ OuterMacMatches
               /\ data.options.type = "standard"
                    => data.options.theirDigest = sha256(InnerFrame)
               /\ data.decrypted.iv = SubSeq(InnerFrame, 1, IV_LENGTH)
               /\ data.decrypted.iv # SubSeq(data.bytes, 1, IV_LENGTH)
               /\ data.decrypted.sink
                    = decryptAttachmentV2ToSink(InnerFrame,
                        [data.options EXCEPT
                           !.outerEncryption = NoOuterEncryption]).sink
       /\ (/\ data.options.type = "standard"
           /\ data.options.theirDigest = sha256(data.bytes))
            => data.decrypted.err # ""
       /\ (ValidWrapped /\ ~data.wrapPadded)
            => /\ data.decrypted.err = ""
               /\ data.decrypted.sink = data.plaintext
               /\ data.decrypted.iv = data.encrypted.iv

\* C18 witness: a wrapped frame of a one-byte plaintext was decrypted in
\* 'standard' mode with the digest of the inner frame.
C18_Witness ==
  /\ ValidWrapped
  /\ ~data.wrapPadded
  /\ data.options.type = "standard"
  /\ data.plaintext = <<9>>
  /\ data.decrypted.err = ""
  /\ data.decrypted.sink = <<9>>
  /\ data.decrypted.iv = IvA

\* C19: a valid frame decrypted with a declared size between 0 and the
\* padded length of the plaintext succeeds; the sink receives exactly the
\* first size bytes of the padded plaintext and plaintextHash is the
\* hash of those bytes.  Whether the MAC and digest checks pass does not
\* depend on the declared size.
C19_DeclaredSize ==
  Decrypted
    => LET padded == appendPaddingStream(data.plaintext)
       IN /\ (/\ data.tamper = "none" /\ data.truncated = 0 /\ ~data.wrapped
              /\ SameKeys
              /\ data.options.theirDigest = data.encrypted.digest
              /\ data.options.size \in 0..Len(padded))
               => /\ data.decrypted.err = ""
                  /\ data.decrypted.sink
                       = SubSeq(padded, 1, data.options.size)
                  /\ Len(data.decrypted.sink) = data.options.size
                  /\ data.decrypted.plaintextHash
                       = toHex(sha256(data.decrypted.sink))
          /\ \A size \in 0..Len(padded) :
               decryptAttachmentV2ToSink(data.bytes,
                   [data.options EXCEPT !.size = size]).err
                 = data.decrypted.err

\* C19 witness: a two-byte plaintext was decrypted with declared size 1
\* and the sink holds its first byte.
C19_Witness ==
  /\ Decrypted
  /\ data.tamper = "none" /\ data.truncated = 0 /\ ~data.wrapped
  /\ data.plaintext = <<9, 9>>
  /\ data.options.size = 1
  /\ data.decrypted.err = ""
  /\ data.decrypted.sink = <<9>>

\* C13: changing a single byte of a valid frame, in the IV, in the
\* ciphertext or in the MAC, makes decryption in 'standard' mode with the
\* right keys, declared size and digest fail with Bad MAC or Bad digest,
\* and with Bad MAC when the last byte of the MAC was changed.
C13_TamperDetected ==
  (/\ Decrypted
   /\ data.tamper # "none" /\ ~data.wrapped
   /\ SameKeys
   /\ data.options.type = "standard"
   /\ data.options.theirDigest = data.encrypted.digest
   /\ data.options.size = Len(data.plaintext))
    => /\ data.decrypted.err \in {"Bad MAC", "Bad digest"}
       /\ data.tamper = "mac" => data.decrypted.err = "Bad MAC"

\* C14: removing one or more bytes from the end of a valid frame makes
\* decryption with the right keys fail, with TruncatedFrame or with Bad
\* MAC; a truncated frame never decrypts.
C14_TruncationDetected ==
  (Decrypted /\ data.truncated > 0 /\ SameKeys)
    => /\ data.decrypted.err # ""
       /\ data.decrypted.err \in {"TruncatedFrame", "Bad MAC"}

\* the first decryption: the stored bytes under the options of the call
FirstDecryption == decryptAttachmentV2ToSink(data.bytes, data.options)

\* the second one: the file at the returned path, in 'local' mode under
\* the returned localKey with the same declared size
SecondDecryption ==
  LET k == splitKeys(fromBase64(data.reencrypted.localKey))
  IN decryptAttachmentV2ToSink(data.reencrypted.file,
       [aesKey |-> k.aesKey, macKey |-> k.macKey,
        size |-> data.options.size, type |-> "local", theirDigest |-> <<>>,
        outerEncryption |-> NoOuterEncryption])

\* C12: when decryptAndReencryptLocally succeeds, the file at the returned
\* path decrypts in 'local' mode under the returned localKey, with the
\* same declared size, to the plaintext the input decrypts to; its
\* plaintextHash is that of decrypting the input, which is the one in the
\* record; the record has version 2 and localKey is the base64 of the
\* freshly generated 64-byte key.  It succeeds exactly when decrypting
\* the input does.
C12_ReencryptRoundTrip ==
  data.stage = "reencrypted"
    => /\ data.reencrypted.err = "" <=> FirstDecryption.err = ""
       /\ data.reencrypted.err = ""
            => /\ SecondDecryption.err = ""
               /\ SecondDecryption.sink = FirstDecryption.sink
               /\ SecondDecryption.plaintextHash = FirstDecryption.plaintextHash
               /\ data.reencrypted.plaintextHash = FirstDecryption.plaintextHash
               /\ data.reencrypted.version = 2
               /\ fromBase64(data.reencrypted.localKey) \in generateKeys
               /\ Len(fromBase64(data.reencrypted.localKey)) = KEY_SET_LENGTH
               /\ data.reencrypted.localKey # toBase64(OuterKeys)

\* C12 witness: a wrapped frame was re-encrypted under a key other than
\* the one it was made with, and its plaintext came back.
C12_Witness ==
  /\ data.stage = "reencrypted"
  /\ data.reencrypted.err = ""
  /\ data.wrapped
  /\ data.plaintext = <<9, 0>>
  /\ data.options.size = 2
  /\ fromBase64(data.reencrypted.localKey) # data.keys
  /\ SecondDecryption.sink = <<9, 0>>

\* the IV at the head of the file decryptAndReencryptLocally wrote
WrittenIv == SubSeq(data.reencrypted.file, 1, IV_LENGTH)

\* C21: the iv of the record returned by decryptAndReencryptLocally is the
\* base64 of the IV the decryptor found in the input, the inner frame's IV
\* when there is an outer layer; the IV the encryptor generated and put at
\* the head of the output file is in no field of the record.
C21_ReturnedIv ==
  (data.stage = "reencrypted" /\ data.reencrypted.err = "")
    => /\ data.reencrypted.iv = toBase64(FirstDecryption.iv)
       /\ fromBase64(data.reencrypted.iv) = SubSeq(InnerFrame, 1, IV_LENGTH)
       /\ data.tamper = "none"
            => fromBase64(data.reencrypted.iv) = data.encrypted.iv
       /\ data.wrapped
            => fromBase64(data.reencrypted.iv) # SubSeq(data.bytes, 1, IV_LENGTH)
       /\ WrittenIv = IvA
       /\ SecondDecryption.iv = WrittenIv
       /\ WrittenIv # SubSeq(InnerFrame, 1, IV_LENGTH)
            => /\ data.reencrypted.iv # toBase64(WrittenIv)
               /\ DOMAIN data.reencrypted
                    = {"err", "file", "iv", "localKey", "plaintextHash",
                       "version"}

\* C21 witness: a wrapped frame made with the IV IvB was re-encrypted; the
\* output file begins with the new IV IvA and the record holds IvB.
C21_Witness ==
  /\ data.stage = "reencrypted"
  /\ data.reencrypted.err = ""
  /\ data.wrapped
  /\ data.encrypted.iv = IvB
  /\ WrittenIv = IvA
  /\ data.reencrypted.iv = toBase64(IvB)

----------------------------------------------------------------------------
(* Properties of a call *)

Settled == outcome.st # "pending"
Quiescent == ~ENABLED Next
DecryptOps == {"decryptToSink", "decrypt", "reencrypt"}
IntegrityErrors == {"Bad MAC", "Bad digest", "Bad outer encryption MAC"}
TestOnlyErrors == {"TestOnlyIvError", "TestOnlySkipPaddingError"}

\* the sink of the decrypt pipeline was told the stream is complete
DecSinkEnded == IF op = "reencrypt" THEN bridge.ended ELSE out.ended
DecSinkChunks == IF op = "reencrypt" THEN bridge.buf + out.chunks ELSE out.chunks

\* the error that made the call fail
Cause ==
  CASE caught # "" -> caught
    [] op \in {"encrypt", "encryptToDisk"} -> enc.err
    [] op = "reencrypt" /\ bridge.by # "dec" -> enc.err
    [] OTHER -> dec.err

\* a file-producing call has failed with the error caught by its guard
\* (encryptAttachmentV2ToDisk awaits ensureFile before its try block)
FailedInGuard ==
  /\ op \in FileOps
  /\ outcome.st = "rejected"
  /\ ~(op = "encryptToDisk" /\ ~args.ensureOk)

\* C3: once a file-producing call has settled, the output file exists if
\* and only if the call succeeded, and after success the file is complete
\* (stated for the runs in which unlinkSync itself does not fail).
C3_FileIffSuccess ==
  (op \in FileOps /\ Settled /\ unlinked # "EPERM")
    => /\ file <=> outcome.st = "resolved"
       /\ outcome.st = "resolved" => out.ended

\* C4: a call of decryptAndReencryptLocally does not come to rest unsettled,
\* and when its decrypt side has failed the caller has got a thrown error
\* after safeUnlinkSync ran on the output file.
C4_ReencryptSettles ==
  (op = "reencrypt" /\ Quiescent)
    => /\ Settled
       /\ dec.st = "rejected" => outcome.st = "rejected" /\ unlinked # "no"

\* C5: in the decrypt pipeline the finalizer decides after the source is
\* read to its end and before end-of-stream reaches the sink; with a
\* failing integrity check the sink is never ended and neither the
\* decryptor nor the call returns a result.
C5_NoEndOnFailedCheck ==
  op \in DecryptOps
    => /\ dec.st \in {"checked", "resolved"} => dec.left = 0 /\ DecVerdict = "ok"
       /\ dec.err \in IntegrityErrors => dec.left = 0 /\ dec.err = DecVerdict
       /\ DecSinkEnded => dec.st = "resolved"
       /\ DecVerdict # "ok"
            => ~DecSinkEnded /\ dec.st # "resolved" /\ outcome.st # "resolved"

\* C5 witness: a check failed after plaintext had reached the sink.
C5_Witness ==
  /\ op = "decrypt"
  /\ dec.st = "rejected"
  /\ dec.err = "Bad MAC"
  /\ DecSinkChunks = NumChunks
  /\ ~DecSinkEnded
  /\ outcome.st = "rejected"

\* C7: when a call has settled and come to rest, every handle and file
\* stream it opened or created is closed.
C7_HandlesReleased ==
  (Settled /\ Quiescent)
    => /\ writeFd # "open"
       /\ readFd # "open"
       /\ wstream \notin {"opening", "open"}

\* C8: an AbortError raised in the decrypt pipeline reaches the caller as
\* that error, and no error-level log entry is written (stated for the runs
\* in which unlinkSync itself does not fail).
C8_AbortNotLogged ==
  (op \in DecryptOps /\ dec.err = "AbortError" /\ Settled /\ unlinked # "EPERM")
    => /\ outcome = [st |-> "rejected", err |-> "AbortError"]
       /\ log = {}

\* C9 as stated: when a file-producing call fails, the caller receives the
\* error that caused the failure and the output path has been unlinked.
C9_OriginalErrorAfterUnlink ==
  FailedInGuard
    => /\ outcome.err = Cause
       /\ unlinked \in {"ok", "ENOENT"}

\* C9 amended: when a file-producing call fails, safeUnlinkSync has run on
\* the output path; if the unlink succeeded or failed with ENOENT the
\* caller receives the error that caused the failure; if it failed
\* otherwise the caller receives the unlink error, which was logged, and
\* the file is still there.
C9_GuardRethrows ==
  FailedInGuard
    => /\ unlinked # "no"
       /\ unlinked \in {"ok", "ENOENT"} => outcome.err = Cause
       /\ unlinked = "EPERM"
            => outcome.err = "EPERM" /\ "safeUnlinkSync" \in log /\ file

\* C9 witness: the output file was never created, the unlink failed with
\* ENOENT, and the caller got the wrapped creation error.
C9_Witness ==
  /\ op = "decrypt"
  /\ outcome = [st |-> "rejected", err |-> "CreateWritePathError"]
  /\ unlinked = "ENOENT"

\* C10: with dangerousIv of reason 'test' or dangerousTestOnlySkipPadding
\* outside the Test environment encryptAttachmentV2 fails with the source
\* unread and the sink untouched; in the Test environment neither option
\* fails the call, and a dangerousIv of reason 'reencrypting-for-backup'
\* does not fail it as a test-only option in any environment.
C10_TestOnlyGate ==
  (op \in {"encrypt", "encryptToDisk"} /\ enc.st # "idle")
    => /\ ((args.ivReason = "test" \/ args.skipPadding) /\ args.env # "test")
            => /\ enc.st = "rejected"
               /\ enc.left = NumChunks
               /\ out = [chunks |-> 0, ended |-> FALSE]
               /\ outcome.st # "resolved"
       /\ (args.env = "test" \/ (args.ivReason # "test" /\ ~args.skipPadding))
            => enc.err \notin TestOnlyErrors

\* C10 witness: outside tests the test IV made the call fail, with valid
\* keys.
C10_Witness ==
  /\ op = "encryptToDisk"
  /\ args.env = "production"
  /\ args.ivReason = "test"
  /\ args.keys = KeysA
  /\ ~args.skipPadding
  /\ outcome = [st |-> "rejected", err |-> "TestOnlyIvError"]

\* C16: splitKeys fails exactly when the key set is not 64 bytes long and
\* otherwise returns its first 32 bytes as aesKey and its last 32 as
\* macKey.  encryptAttachmentV2, and decryptAttachmentV2ToSink given
\* keysBase64, reject a key set of another length with nothing read from
\* the source, nothing opened and nothing written to the sink.
C16_KeyLength ==
  /\ \A k \in {KeysA, KeysB, ShortKeys, LongKeys, <<>>} :
       /\ splitKeys(k).ok <=> Len(k) = 64
       /\ splitKeys(k).ok
            => /\ splitKeys(k).aesKey = SubSeq(k, 1, 32)
               /\ splitKeys(k).macKey = SubSeq(k, 33, 64)
               /\ splitKeys(k).aesKey \o splitKeys(k).macKey = k
  /\ (op \in {"encrypt", "encryptToDisk"} /\ enc.st # "idle")
       => /\ Len(args.keys) # 64
               => /\ enc.st = "rejected" /\ enc.err = "KeyLengthError"
                  /\ enc.left = NumChunks
                  /\ out = [chunks |-> 0, ended |-> FALSE]
                  /\ op = "encrypt" => wstream = "none" /\ ~file
          /\ Len(args.keys) = 64 => enc.err # "KeyLengthError"
  /\ (op \in DecryptOps /\ dec.st # "idle")
       => /\ (args.keysForm = "base64" /\ Len(fromBase64(args.keysBase64)) # 64)
               => /\ dec.st = "rejected" /\ dec.err = "KeyLengthError"
                  /\ readFd = "none"
                  /\ DecSinkChunks = 0 /\ ~DecSinkEnded
                  /\ out = [chunks |-> 0, ended |-> FALSE]
          /\ (args.keysForm = "direct" \/ Len(fromBase64(args.keysBase64)) = 64)
               => dec.err # "KeyLengthError"

\* C16 witness: decryptAttachmentV2ToSink was given 65 bytes as keysBase64
\* and the call was rejected for the length.
C16_Witness ==
  /\ op = "decryptToSink"
  /\ args.keysForm = "base64"
  /\ Len(fromBase64(args.keysBase64)) = KEY_SET_LENGTH + 1
  /\ readFd = "none"
  /\ outcome = [st |-> "rejected", err |-> "KeyLengthError"]

\* C20: in decryptAndReencryptLocally the end of the stream reaches the
\* encryptor only after the finalizer of the decrypt pipeline has passed:
\* the output frame is complete, or the encryptor has resolved, only if
\* the passthrough was ended and the checks passed; for an input that
\* fails a check no interleaving ends the passthrough, completes the
\* output frame or returns a result.
C20_NoFrameBeforeFinalizer ==
  op = "reencrypt"
    => /\ bridge.ended => DecVerdict = "ok" /\ dec.st = "resolved"
       /\ (out.ended \/ enc.st = "resolved") => bridge.ended
       /\ DecVerdict # "ok"
            => /\ ~bridge.ended
               /\ ~out.ended
               /\ enc.st # "resolved"
               /\ outcome.st # "resolved"

\* C20 witness: the input had a wrong MAC, the encryptor had already
\* written a chunk of the output, and the call was rejected with
\* 'Bad MAC' with the output frame incomplete.
C20_Witness ==
  /\ op = "reencrypt"
  /\ args.theirMac = "bad"
  /\ out.chunks > 0
  /\ ~out.ended
  /\ dec.err = "Bad MAC"
  /\ outcome.st = "rejected"

----------------------------------------------------------------------------
(* Properties of the bytes and of the call together (SpecAll) *)

InBackup == data.stage = "backup"

\* the frame the encryptor makes of the plaintext with exactly the given iv
BackupFrame ==
  LET k == splitKeys(data.backupKeys)
  IN appendMacStream(k.macKey,
       prependIv(data.backupIv.iv,
         createCipheriv(k.aesKey, data.backupIv.iv,
                        appendPaddingStream(data.plaintext))))

\* C11: with dangerousIv of reason 'reencrypting-for-backup' and a
\* digestToMatch of 32 bytes, encryptAttachmentV2 succeeds if and only if
\* the digest of the frame made with exactly that iv equals digestToMatch;
\* then the digest returned is digestToMatch and the iv returned is the
\* given iv; otherwise it throws ReencryptedDigestMismatchError, after the
\* frame was written, and encryptAttachmentV2ToDisk unlinks the written
\* file.  A digestToMatch of another length fails before the pipeline runs.
C11_DigestToMatch ==
  /\ (InBackup /\ Len(data.backupIv.digestToMatch) = DIGEST_LENGTH)
       => /\ data.backup.err = ""
               <=> sha256(BackupFrame) = data.backupIv.digestToMatch
          /\ (/\ data.backupKeys = data.keys
              /\ data.backupIv.iv = data.encrypted.iv
              /\ data.backupIv.digestToMatch = data.encrypted.digest)
               => data.backup.err = ""
          /\ data.backup.err = ""
               => /\ data.backup.digest = data.backupIv.digestToMatch
                  /\ data.backup.iv = data.backupIv.iv
                  /\ data.backup.sink = BackupFrame
          /\ data.backup.err # ""
               => /\ data.backup.err = "ReencryptedDigestMismatchError"
                  /\ data.backup.sink = BackupFrame
  /\ (InBackup /\ Len(data.backupIv.digestToMatch) # DIGEST_LENGTH)
       => /\ data.backup.err = "DigestToMatchLengthError"
          /\ data.backup.sink = <<>>
  /\ (/\ op \in {"encrypt", "encryptToDisk"}
      /\ args.ivReason = "reencrypting-for-backup"
      /\ enc.st # "idle"
      /\ splitKeys(args.keys).ok)
       => /\ args.digestToMatchLen # DIGEST_LENGTH
               => /\ enc.err = "DigestToMatchLengthError"
                  /\ enc.left = NumChunks
                  /\ out = [chunks |-> 0, ended |-> FALSE]
          /\ enc.st = "resolved" => args.digestMatches
          /\ (out.ended /\ ~args.digestMatches)
               => enc.err = "ReencryptedDigestMismatchError"
          /\ enc.err = "ReencryptedDigestMismatchError"
               => /\ out.ended /\ ~args.digestMatches
                  /\ (op = "encryptToDisk" /\ Settled)
                       => /\ outcome.st = "rejected"
                          /\ unlinked # "no"
                          /\ unlinked # "EPERM" => ~file

\* C11 witness: the same plaintext under the same keys and iv gave the
\* digest to match again.
C11_Witness ==
  /\ InBackup
  /\ data.plaintext = <<9, 0>>
  /\ data.backupIv.digestToMatch = data.encrypted.digest
  /\ data.backup.err = ""
  /\ data.backup.digest = data.encrypted.digest
  /\ data.backup.sink = data.encrypted.sink


----------------------------------------------------------------------------
(* Properties of the sizes (SpecSize) *)

\* C15: for every plaintext length n the ciphertextSize returned by
\* encryptAttachmentV2 with the logical padding is
\* getAttachmentCiphertextLength(n), which is IV_LENGTH plus
\* getAesCbcCiphertextLength of the padded length plus the MAC length, and
\* it is the number of bytes the sink received; getAesCbcCiphertextLength(m)
\* is a multiple of 16, greater than m and at most m + 16, a whole block
\* more when m is a multiple of 16.  The empty plaintext, padded to
\* nothing, gives 64; a 16-byte plaintext without logical padding gives 80.
C15_CiphertextLength ==
  data.stage = "frame"
    => LET n == Len(data.plaintext)
           m == IF data.skipPadding THEN n ELSE logPadSize(n)
           c == getAesCbcCiphertextLength(m)
       IN /\ data.encrypted.err = ""
          /\ ~data.skipPadding
               => /\ data.encrypted.ciphertextSize
                      = getAttachmentCiphertextLength(n)
                  /\ getAttachmentCiphertextLength(n)
                      = IV_LENGTH + c + ATTACHMENT_MAC_LENGTH
          /\ data.encrypted.ciphertextSize = Len(data.encrypted.sink)
          /\ data.encrypted.ciphertextSize
               = IV_LENGTH + c + ATTACHMENT_MAC_LENGTH
          /\ c % 16 = 0 /\ c > m /\ c <= m + 16
          /\ m % 16 = 0 => c = m + 16
          /\ (n = 0 /\ logPadSize(0) = 0 /\ ~data.skipPadding)
               => data.encrypted.ciphertextSize = 64
          /\ (n = 16 /\ data.skipPadding)
               => data.encrypted.ciphertextSize = 80

\* C15 witness: a plaintext of exactly one block was encrypted without the
\* logical padding and the frame has 80 bytes.
C15_Witness ==
  /\ data.stage = "frame"
  /\ Len(data.plaintext) = AES_CBC_BLOCK_SIZE
  /\ data.skipPadding
  /\ Len(data.encrypted.sink) = 80
  /\ data.encrypted.ciphertextSize = 80


----------------------------------------------------------------------------
(* Properties of the pipeline chunk by chunk (SpecStream) *)

\* the frame of the plaintext: IV, ciphertext of the padded plaintext, MAC
StreamFrame ==
  LET k == splitKeys(data.keys)
      padded == IF data.skipPadding THEN data.plaintext
                ELSE appendPaddingStream(data.plaintext)
      body == data.iv \o createCipheriv(k.aesKey, data.iv, padded)
  IN body \o hmacSha256(k.macKey, body)

IsPrefix(a, b) == Len(a) <= Len(b) /\ a = SubSeq(b, 1, Len(a))

\* C17: however the source is cut into chunks, the sink receives the IV,
\* the CBC ciphertext of the padded plaintext and the HMAC over the two;
\* the digest returned is the hash of the bytes the sink received,
\* ciphertextSize is their number, plaintextHash is the hash of the
\* unpadded plaintext, and the values returned are the same without a sink.
C17_FrameAnyChunking ==
  /\ data.stage = "stream"
       => /\ data.sinkGiven => IsPrefix(data.sink, StreamFrame)
          /\ data.totalBytes <= Len(StreamFrame)
  /\ data.stage = "streamed"
       => /\ Len(data.iv) = IV_LENGTH
          /\ data.sinkGiven
               => /\ data.sink = StreamFrame
                  /\ data.result.digest = sha256(data.sink)
                  /\ data.result.ciphertextSize = Len(data.sink)
          /\ ~data.sinkGiven => data.sink = <<>>
          /\ data.result.digest = sha256(StreamFrame)
          /\ data.result.ciphertextSize = Len(StreamFrame)
          /\ data.result.iv = data.iv
          /\ data.result.plaintextHash = toHex(sha256(data.plaintext))
          /\ [data.result EXCEPT !.sink = StreamFrame]
               = encryptAttachmentV2(data.keys, data.plaintext, NoIv,
                                     data.skipPadding,
                                     IF data.skipPadding THEN "test"
                                     ELSE "production", data.iv)

\* C17 witness: a plaintext longer than an AES block came in three chunks
\* and the sink holds its whole frame.
C17_Witness ==
  /\ data.stage = "streamed"
  /\ Len(data.plaintext) = AES_CBC_BLOCK_SIZE + 1
  /\ data.reads = 3
  /\ data.sinkGiven
  /\ ~data.skipPadding
  /\ data.sink = StreamFrame

====
